---- MODULE Spec2Model ----
(***************************************************************************)
(* scraping/scrape_rss.py: the two-stage threaded RSS scraper.             *)
(*                                                                         *)
(* The driver fills XML_QUEUE from NEWS_URLs, runs THREAD_LIMIT `news`     *)
(* threads that download each feed and put one item per entry node into    *)
(* EXTRACT_FEED_QUEUE, joins them, runs THREAD_LIMIT `extract_feed_data`   *)
(* threads that filter, deduplicate against CACHE / cache.txt and enrich   *)
(* each entry into a record of RSS_STACK, joins them and hands RSS_STACK   *)
(* to the sink.                                                            *)
(*                                                                         *)
(* Every shared-memory access of a thread is one step of the model; the    *)
(* thread-local computation that follows an access is folded into it.      *)
(* Texts (tag contents, URLs, cache rows) are sequences of words.          *)
(***************************************************************************)
EXTENDS Naturals, Sequences, FiniteSets, TLC

(***************************************************************************)
(* Bounds of the model.                                                    *)
(***************************************************************************)
\* Threads per pool.  The script sets THREAD_LIMIT = 10; the model keeps the
\* pool small and the feeds smaller still, so that every pool-size case
\* (fewer items than threads, as many, more) occurs.
THREAD_LIMIT == 2

(***************************************************************************)
(* Program constants.                                                      *)
(***************************************************************************)
CORONA_KEYWORDS == {"corona", "coronavirus"}

RssSchema == [title |-> "title", description |-> "description", url |-> "link"]

CnaSchema ==
  [title |-> "title", description |-> "news:keywords", url |-> "loc",
   publish_date |-> "news:publication_date"]

\* NEWS_URLs: language -> list of (root url, schema).  The script lists ten
\* "en" RSS feeds of one schema and the channelnewsasia sitemap last; two RSS
\* feeds stand for the ten.
NEWS_URLs ==
  [en |-> << <<"feedA", RssSchema>>, <<"feedB", RssSchema>>, <<"sitemapC", CnaSchema>> >>]

Langs == DOMAIN NEWS_URLs

RootUrls == UNION {{NEWS_URLs[l][i][1] : i \in DOMAIN NEWS_URLs[l]} : l \in Langs}

Threads == 1..THREAD_LIMIT

(***************************************************************************)
(* The outside world: what each root url serves, what cache.txt held.      *)
(***************************************************************************)
\* An entry node: the tags it carries, each with its text.
RssNode(t, d, u) == [title |-> t, description |-> d, link |-> u]
\* date strings as feeds and pages carry them, and the canonical strings
\* strftime(DATE_FORMAT) gives once they are in UTC
RfcDate == <<"Sat, 25 Jan 2020 01:52:22 +0000">>
RfcDateUtc == <<"2020-01-25 01:52:22">>
IsoDate == <<"2020-01-31T22:10:38+0800">>
IsoDateUtc == <<"2020-01-31 14:10:38">>
GmtDate == <<"Fri, 31 Jan 2020 09:00:00 GMT">>
PageDateUtc == <<"2020-01-30 12:00:00">>

CnaNode(t, d, u) ==
  [title |-> t, loc |-> u]
    @@ ("news:keywords" :> d) @@ ("news:publication_date" :> IsoDate)

KwInDesc == RssNode(<<"news">>, <<"new", "CORONA", "case">>, <<"url1">>)
NoKw == RssNode(<<"coronaviruses">>, <<"flu", "season">>, <<"url2">>)
NoTitleTag == [description |-> <<"corona">>, link |-> <<"url2">>]
NoLinkTag == [title |-> <<"corona">>, description |-> <<"flu">>]
CnaKw == CnaNode(<<"Wuhan">>, <<"coronavirus", "Wuhan">>, <<"url2">>)
CnaNoKw == CnaNode(<<"flu", "season">>, <<"flu">>, <<"url1">>)
KwInTitle == CnaNode(<<"Coronavirus", "spreads">>, <<"flu">>, <<"url1">>)

\* A feed document: the download fails, or it parses into a page with its
\* "item" nodes and its "url" nodes.
\* lastBuildDate is <<>> when the page has no such tag, else its text.
FailedDoc == [ok |-> FALSE, items |-> <<>>, urls |-> <<>>, lastBuildDate |-> <<>>]
DatedPage(items, urls, built) ==
  [ok |-> TRUE, items |-> items, urls |-> urls, lastBuildDate |-> built]
Page(items, urls) == DatedPage(items, urls, <<>>)

RssDocs ==
  { FailedDoc, Page(<<KwInDesc>>, <<>>), Page(<<NoKw>>, <<>>),
    Page(<<NoTitleTag>>, <<>>), Page(<<NoLinkTag>>, <<>>) }

SitemapDocs ==
  { Page(<<>>, <<>>), Page(<<>>, <<CnaKw>>), Page(<<>>, <<CnaNoKw, CnaKw>>),
    Page(<<KwInTitle>>, <<CnaKw>>) }

Webs ==
  {w \in [RootUrls -> RssDocs \cup SitemapDocs] :
     \A l \in Langs : \A i \in DOMAIN NEWS_URLs[l] :
        w[NEWS_URLs[l][i][1]] \in
          (IF NEWS_URLs[l][i][2] = RssSchema THEN RssDocs ELSE SitemapDocs)}

\* What extract_article returns for a link: publish_date is <<>> for None,
\* else the date already formatted; modified_time is <<>> when meta_data has
\* no article.modified_time, else that string.
Article(publish_date, modified_time) ==
  [publish_date |-> publish_date, modified_time |-> modified_time]

PlainArticle == Article(<<>>, <<>>)

ArticlePool ==
  {Article(p, m) : p \in {<<>>, PageDateUtc}, m \in {<<>>, IsoDate, GmtDate}}

\* Feeds whose entries differ in the dates they carry.
WithPubDate(node, date) == node @@ [pubDate |-> date]
CnaUndated == [title |-> <<"corona">>, loc |-> <<"url2">>] @@ ("news:keywords" :> <<"flu">>)

DatedRssDocs ==
  { Page(<<KwInDesc>>, <<>>),
    Page(<<WithPubDate(KwInDesc, RfcDate)>>, <<>>),
    Page(<<WithPubDate(KwInDesc, GmtDate)>>, <<>>),
    DatedPage(<<KwInDesc>>, <<>>, RfcDate),
    DatedPage(<<KwInDesc>>, <<>>, GmtDate) }

DatedSitemapDocs ==
  { Page(<<>>, <<WithPubDate(CnaKw, RfcDate)>>),
    Page(<<>>, <<WithPubDate(CnaUndated, RfcDate)>>),
    Page(<<>>, <<CnaUndated>>) }

\* one RSS feed with a dated entry, the other RSS feeds empty, and the sitemap
DatedWebs ==
  {w \in [RootUrls -> DatedRssDocs \cup DatedSitemapDocs \cup {Page(<<>>, <<>>)}] :
     \E l \in Langs : \E i \in DOMAIN NEWS_URLs[l] :
        /\ NEWS_URLs[l][i][2] = RssSchema
        /\ w[NEWS_URLs[l][i][1]] \in DatedRssDocs
        /\ \A j \in DOMAIN NEWS_URLs[l] \ {i} :
              w[NEWS_URLs[l][j][1]] \in
                (IF NEWS_URLs[l][j][2] = RssSchema THEN {Page(<<>>, <<>>)}
                 ELSE DatedSitemapDocs)}

\* cache.txt as a previous run may have left it: one row per url.
PriorCacheFiles == {<<>>, << <<"url1">> >>}

(***************************************************************************)
(* State.                                                                  *)
(***************************************************************************)
VARIABLES
  READ_ALL_SKIP_CACHE,  \* args.all
  web,                  \* root url -> the document it serves
  cacheFile,            \* rows of cache.txt, each written as url + "\n"
  rerun,                \* this process is a second run over the same feeds
  CACHE,                \* set of urls
  XML_QUEUE,            \* queue of (lang, (root url, schema))
  EXTRACT_FEED_QUEUE,   \* queue of entry items
  RSS_STACK,            \* lang -> list of records
  mainpc,               \* where the module-level driver is
  started,              \* threads the driver's current loop has started
  npc, nheld,           \* news threads: position, entry items still to put
  epc, eheld,           \* extract_feed_data threads: position, item in hand
  articles,             \* what extract_article may return for a link
  earticle,             \* extract_feed_data threads: the article in hand
  extractCalls,         \* items extract_article was called for
  cacheDrops,           \* items skipped because their url was in CACHE
  sinkOut               \* what the sink was handed

vars ==
  << READ_ALL_SKIP_CACHE, web, cacheFile, rerun, CACHE, XML_QUEUE,
     EXTRACT_FEED_QUEUE, RSS_STACK, mainpc, started, npc, nheld, epc, eheld,
     articles, earticle, extractCalls, cacheDrops, sinkOut >>

(***************************************************************************)
(* Pure helpers.                                                           *)
(***************************************************************************)
\* str.lower() on the words feeds use.
Lower(word) ==
  CASE word = "Coronavirus" -> "coronavirus"
    [] word = "CORONA" -> "corona"
    [] word = "Wuhan" -> "wuhan"
    [] OTHER -> word

\* set(re.findall(r"\w+", text.lower()))
Words(text) == {Lower(text[i]) : i \in 1..Len(text)}

\* feed_source.find(tag) is None
Missing(node, tag) == tag \notin DOMAIN node

\* the keyword test of extract_feed_data: TRUE when the entry is skipped
NoKeyword(res_title, res_desc) ==
  /\ Words(res_title) \cap CORONA_KEYWORDS = {}
  /\ Words(res_desc) \cap CORONA_KEYWORDS = {}

\* stream.split("\n") of read_cache: the text after the last "\n" is a row too
SplitRows(file) == {file[i] : i \in 1..Len(file)} \cup {<<>>}

\* (mutant) the 'url' nodes are taken as well as the 'item' nodes
EntryNodesBoth(soup_page) == soup_page.items \o soup_page.urls

\* soup_page.findAll("item"), or findAll("url") when that is empty
\* (lines 172-175)
EntryNodes(soup_page) ==
  IF soup_page.items # <<>> THEN soup_page.items ELSE soup_page.urls

\* the tuple news() puts: (lang, root_url, soup_page, getfeed, schema);
\* soup_page is web[root_url], getfeed the k-th of its entry nodes
EntryItem(lang, root_url, schema, k) ==
  [lang |-> lang, root_url |-> root_url, schema |-> schema, k |-> k,
   node |-> EntryNodes(web[root_url])[k]]

ItemId(item) == <<item.root_url, item.k>>

ItemUrl(item) == item.node[item.schema.url]

\* re.findall(DATE_RFC_2822_REGEX_RULE, date_string): the day, month, year,
\* time and a +hhmm offset; a zone name such as GMT is no offset
MatchesRfc2822(date_string) == date_string = RfcDate

\* re.findall(ISO_8601_DATE_REGEX_RULE, date_string)
MatchesIso8601(date_string) == date_string = IsoDate

\* date_convert: the string in UTC as DATE_FORMAT. With neither pattern
\* found, original_datetime_format is the str itself and the call of
\* astimezone on it raises AttributeError.
date_convert(date_string) ==
  IF MatchesRfc2822(date_string) THEN [raised |-> FALSE, value |-> RfcDateUtc]
  ELSE IF MatchesIso8601(date_string) THEN [raised |-> FALSE, value |-> IsoDateUtc]
  ELSE [raised |-> TRUE, value |-> date_string]

\* the branch of the publishedAt chain the code takes, and the string it
\* reads there. The first branch is taken on the schema alone, and reads
\* .text of whatever find() returned.
DateSource(item, soup_page, article) ==
  IF "publish_date" \in DOMAIN item.schema
    THEN IF Missing(item.node, item.schema.publish_date)
           THEN [how |-> "none_text", raw |-> <<>>]
           ELSE [how |-> "convert", raw |-> item.node[item.schema.publish_date]]
  ELSE IF ~Missing(item.node, "pubDate")
    THEN [how |-> "convert", raw |-> item.node.pubDate]
  ELSE IF article.publish_date # <<>>
    THEN [how |-> "strftime", raw |-> article.publish_date]
  ELSE IF article.modified_time # <<>>
    THEN [how |-> "convert", raw |-> article.modified_time]
  ELSE IF soup_page.lastBuildDate # <<>>
    THEN [how |-> "convert", raw |-> soup_page.lastBuildDate]
  ELSE [how |-> "empty", raw |-> <<>>]

\* rss_record["publishedAt"], or the exception raised on the way to it
PublishedAt(item, soup_page, article) ==
  LET src == DateSource(item, soup_page, article)
  IN  IF src.how = "none_text" THEN [raised |-> TRUE, value |-> <<>>]
      ELSE IF src.how = "convert" THEN date_convert(src.raw)
      ELSE [raised |-> FALSE, value |-> src.raw]

\* the rss_record extract_feed_data appends
Record(item, article) ==
  [item |-> ItemId(item), title |-> item.node[item.schema.title],
   url |-> ItemUrl(item),
   publishedAt |-> PublishedAt(item, web[item.root_url], article).value]

\* all records of RSS_STACK, language by language
AllRecords ==
  LET ls == DOMAIN RSS_STACK
      RECURSIVE Cat(_)
      Cat(S) == IF S = {} THEN <<>>
                ELSE LET l == CHOOSE x \in S : TRUE
                     IN RSS_STACK[l].list \o Cat(S \ {l})
  IN Cat(ls)

Dead(pc) == pc \in {"done", "crashed"}

(***************************************************************************)
(* Init: the process has parsed its arguments.                             *)
(***************************************************************************)
Init ==
  /\ READ_ALL_SKIP_CACHE \in BOOLEAN
  /\ web \in Webs
  /\ cacheFile \in PriorCacheFiles
  /\ rerun = FALSE
  /\ CACHE = {}
  /\ XML_QUEUE = <<>>
  /\ EXTRACT_FEED_QUEUE = <<>>
  /\ RSS_STACK = <<>>
  /\ mainpc = "boot"
  /\ started = 0
  /\ npc = [t \in Threads |-> "new"]
  /\ nheld = [t \in Threads |-> <<>>]
  /\ epc = [t \in Threads |-> "new"]
  /\ eheld = [t \in Threads |-> <<>>]
  /\ articles = {PlainArticle}
  /\ earticle = [t \in Threads |-> <<>>]
  /\ extractCalls = {}
  /\ cacheDrops = {}
  /\ sinkOut = <<>>

(***************************************************************************)
(* The driver (module level).                                              *)
(***************************************************************************)
\* every (lang, rss) of NEWS_URLs in order
InitialXmlQueue ==
  LET RECURSIVE Cat(_)
      Cat(S) == IF S = {} THEN <<>>
                ELSE LET l == CHOOSE x \in S : TRUE
                     IN [i \in 1..Len(NEWS_URLs[l]) |-> <<l, NEWS_URLs[l][i]>>]
                          \o Cat(S \ {l})
  IN Cat(Langs)

\* lines 381-398: reset cache, read cache, fill the xml queue
Boot ==
  /\ mainpc = "boot"
  /\ \E clear \in (IF rerun THEN {FALSE} ELSE BOOLEAN) :
       LET file == IF clear THEN <<>> ELSE cacheFile
       IN /\ cacheFile' = file
          /\ CACHE' = IF READ_ALL_SKIP_CACHE THEN CACHE ELSE CACHE \cup SplitRows(file)
  /\ XML_QUEUE' = InitialXmlQueue
  /\ mainpc' = "start_news"
  /\ started' = 0
  /\ UNCHANGED << READ_ALL_SKIP_CACHE, web, rerun, EXTRACT_FEED_QUEUE, RSS_STACK,
                  npc, nheld, epc, eheld, extractCalls, sinkOut,
                  cacheDrops,
                  articles, earticle >>

\* lines 401-404: start the next news thread
StartNews ==
  /\ mainpc = "start_news"
  /\ npc' = [npc EXCEPT ![started + 1] = "check"]
  /\ started' = started + 1
  /\ mainpc' = IF started + 1 = THREAD_LIMIT THEN "join_news" ELSE mainpc
  /\ UNCHANGED << READ_ALL_SKIP_CACHE, web, cacheFile, rerun, CACHE, XML_QUEUE,
                  EXTRACT_FEED_QUEUE, RSS_STACK, nheld, epc, eheld,
                  extractCalls, sinkOut,
                  cacheDrops,
                  articles, earticle >>

\* (mutant) the join loop waits for one thread only
AllJoinedAny(pc) == \E t \in Threads : Dead(pc[t])

\* lines 406-407: the join loop returns once every thread has ended
AllJoined(pc) == \A t \in Threads : Dead(pc[t])

JoinNews ==
  /\ mainpc = "join_news"
  /\ AllJoined(npc)
  /\ mainpc' = "start_feed"
  /\ started' = 0
  /\ UNCHANGED << READ_ALL_SKIP_CACHE, web, cacheFile, rerun, CACHE, XML_QUEUE,
                  EXTRACT_FEED_QUEUE, RSS_STACK, npc, nheld, epc, eheld,
                  extractCalls, sinkOut,
                  cacheDrops,
                  articles, earticle >>

\* lines 413-415: start the next extract_feed_data thread
StartFeed ==
  /\ mainpc = "start_feed"
  /\ epc' = [epc EXCEPT ![started + 1] = "check"]
  /\ started' = started + 1
  /\ mainpc' = IF started + 1 = THREAD_LIMIT THEN "join_feed" ELSE mainpc
  /\ UNCHANGED << READ_ALL_SKIP_CACHE, web, cacheFile, rerun, CACHE, XML_QUEUE,
                  EXTRACT_FEED_QUEUE, RSS_STACK, npc, nheld, eheld,
                  extractCalls, sinkOut,
                  cacheDrops,
                  articles, earticle >>

\* lines 417-418
\* (mutant) the driver goes on to the sinks without joining the threads
JoinFeedNoWait ==
  /\ mainpc = "join_feed"
  /\ mainpc' = "sink"
  /\ UNCHANGED << READ_ALL_SKIP_CACHE, web, cacheFile, rerun, CACHE, XML_QUEUE,
                  EXTRACT_FEED_QUEUE, RSS_STACK, started, npc, nheld, epc, eheld,
                  extractCalls, sinkOut, cacheDrops, articles, earticle >>

JoinFeed ==
  /\ mainpc = "join_feed"
  /\ AllJoined(epc)
  /\ mainpc' = "sink"
  /\ UNCHANGED << READ_ALL_SKIP_CACHE, web, cacheFile, rerun, CACHE, XML_QUEUE,
                  EXTRACT_FEED_QUEUE, RSS_STACK, started, npc, nheld, epc, eheld,
                  extractCalls, sinkOut,
                  cacheDrops,
                  articles, earticle >>

\* lines 423-429: save_to_db, or print_pretty and write_output, read RSS_STACK
Sink ==
  /\ mainpc = "sink"
  /\ sinkOut' = AllRecords
  /\ mainpc' = "done"
  /\ UNCHANGED << READ_ALL_SKIP_CACHE, web, cacheFile, rerun, CACHE, XML_QUEUE,
                  EXTRACT_FEED_QUEUE, RSS_STACK, started, npc, nheld, epc, eheld,
                  extractCalls,
                  cacheDrops,
                  articles, earticle >>

(***************************************************************************)
(* news(): one thread of the fetch pool.                                   *)
(***************************************************************************)
\* line 157: while not XML_QUEUE.empty()
NewsCheck(t) ==
  /\ npc[t] = "check"
  /\ npc' = [npc EXCEPT ![t] = IF XML_QUEUE = <<>> THEN "done" ELSE "get"]
  /\ UNCHANGED << READ_ALL_SKIP_CACHE, web, cacheFile, rerun, CACHE, XML_QUEUE,
                  EXTRACT_FEED_QUEUE, RSS_STACK, mainpc, started, nheld, epc,
                  eheld, extractCalls, sinkOut,
                  cacheDrops,
                  articles, earticle >>

\* one entry item per entry node, in document order (lines 177-178)
NewsList(lang, root_url, schema) ==
  [k \in 1..Len(EntryNodes(web[root_url])) |-> EntryItem(lang, root_url, schema, k)]

\* lines 159-175: XML_QUEUE.get() blocks while the queue is empty; then the
\* download, which raises in this thread when it fails, and the parse
NewsGet(t) ==
  /\ npc[t] = "get"
  /\ XML_QUEUE # <<>>
  /\ LET lang == Head(XML_QUEUE)[1]
         root_url == Head(XML_QUEUE)[2][1]
         schema == Head(XML_QUEUE)[2][2]
         news_list == NewsList(lang, root_url, schema)
     IN /\ XML_QUEUE' = Tail(XML_QUEUE)
        /\ IF ~web[root_url].ok
             THEN /\ npc' = [npc EXCEPT ![t] = "crashed"]
                  /\ nheld' = nheld
             ELSE /\ npc' = [npc EXCEPT ![t] = IF news_list = <<>> THEN "check" ELSE "put"]
                  /\ nheld' = [nheld EXCEPT ![t] = news_list]
  /\ UNCHANGED << READ_ALL_SKIP_CACHE, web, cacheFile, rerun, CACHE,
                  EXTRACT_FEED_QUEUE, RSS_STACK, mainpc, started, epc, eheld,
                  extractCalls, sinkOut,
                  cacheDrops,
                  articles, earticle >>

\* lines 177-178: one EXTRACT_FEED_QUEUE.put per entry node
NewsPut(t) ==
  /\ npc[t] = "put"
  /\ EXTRACT_FEED_QUEUE' = Append(EXTRACT_FEED_QUEUE, Head(nheld[t]))
  /\ nheld' = [nheld EXCEPT ![t] = Tail(nheld[t])]
  /\ npc' = [npc EXCEPT ![t] = IF Tail(nheld[t]) = <<>> THEN "check" ELSE "put"]
  /\ UNCHANGED << READ_ALL_SKIP_CACHE, web, cacheFile, rerun, CACHE, XML_QUEUE,
                  RSS_STACK, mainpc, started, epc, eheld, extractCalls, sinkOut,
                  cacheDrops,
                  articles, earticle >>

(***************************************************************************)
(* extract_feed_data(): one thread of the filter/enrich pool.              *)
(***************************************************************************)
\* line 182: while not EXTRACT_FEED_QUEUE.empty()
FeedCheck(t) ==
  /\ epc[t] = "check"
  /\ epc' = [epc EXCEPT ![t] = IF EXTRACT_FEED_QUEUE = <<>> THEN "done" ELSE "get"]
  /\ UNCHANGED << READ_ALL_SKIP_CACHE, web, cacheFile, rerun, CACHE, XML_QUEUE,
                  EXTRACT_FEED_QUEUE, RSS_STACK, mainpc, started, npc, nheld,
                  eheld, extractCalls, sinkOut,
                  cacheDrops,
                  articles, earticle >>

\* (mutant) the keyword test is skipped
AfterGetUnfiltered(item) ==
  IF Missing(item.node, item.schema.title) \/ Missing(item.node, item.schema.description)
    THEN "crashed"
  ELSE IF Missing(item.node, item.schema.url)
    THEN "crashed"
  ELSE "incache"

\* lines 191-213 on the item just taken: where the thread goes next.
\* .text of a tag that is absent raises and ends the thread.
AfterGet(item) ==
  IF Missing(item.node, item.schema.title) \/ Missing(item.node, item.schema.description)
    THEN "crashed"
  ELSE IF NoKeyword(item.node[item.schema.title], item.node[item.schema.description])
    THEN "check"
  ELSE IF Missing(item.node, item.schema.url)
    THEN "crashed"
  ELSE "incache"

\* (mutant) the head of the queue is read and left in the queue
FeedGetPeek(t) ==
  /\ epc[t] = "get"
  /\ EXTRACT_FEED_QUEUE # <<>>
  /\ eheld' = [eheld EXCEPT ![t] = <<Head(EXTRACT_FEED_QUEUE)>>]
  /\ epc' = [epc EXCEPT ![t] = AfterGet(Head(EXTRACT_FEED_QUEUE))]
  /\ UNCHANGED << READ_ALL_SKIP_CACHE, web, cacheFile, rerun, CACHE, XML_QUEUE,
                  EXTRACT_FEED_QUEUE, RSS_STACK, mainpc, started, npc, nheld,
                  extractCalls, sinkOut, cacheDrops, articles, earticle >>

\* lines 184-213: EXTRACT_FEED_QUEUE.get() blocks while the queue is empty
FeedGet(t) ==
  /\ epc[t] = "get"
  /\ EXTRACT_FEED_QUEUE # <<>>
  /\ EXTRACT_FEED_QUEUE' = Tail(EXTRACT_FEED_QUEUE)
  /\ eheld' = [eheld EXCEPT ![t] = <<Head(EXTRACT_FEED_QUEUE)>>]
  /\ epc' = [epc EXCEPT ![t] = AfterGet(Head(EXTRACT_FEED_QUEUE))]
  /\ UNCHANGED << READ_ALL_SKIP_CACHE, web, cacheFile, rerun, CACHE, XML_QUEUE,
                  RSS_STACK, mainpc, started, npc, nheld, extractCalls, sinkOut,
                  cacheDrops,
                  articles, earticle >>

\* (mutant) the url is accepted whether or not CACHE holds it
AfterCacheLookupBlind(url) ==
  IF ~READ_ALL_SKIP_CACHE THEN "filewrite" ELSE "extract"

\* (mutant) add_to_cache is called whatever READ_ALL_SKIP_CACHE says
AfterCacheLookupAlwaysAdd(url) ==
  IF url \in CACHE THEN "check" ELSE "filewrite"

\* lines 215-218: where the thread goes after looking its url up in CACHE
AfterCacheLookup(url) ==
  IF url \in CACHE THEN "check"
  ELSE IF ~READ_ALL_SKIP_CACHE THEN "filewrite"
  ELSE "extract"

FeedCacheLookup(t) ==
  /\ epc[t] = "incache"
  /\ epc' = [epc EXCEPT ![t] = AfterCacheLookup(ItemUrl(eheld[t][1]))]
  /\ cacheDrops' =
       IF ItemUrl(eheld[t][1]) \in CACHE
         THEN cacheDrops \cup {ItemId(eheld[t][1])} ELSE cacheDrops
  /\ UNCHANGED << READ_ALL_SKIP_CACHE, web, cacheFile, rerun, CACHE, XML_QUEUE,
                  EXTRACT_FEED_QUEUE, RSS_STACK, mainpc, started, npc, nheld,
                  eheld, extractCalls, sinkOut,
                  articles, earticle >>

\* (mutant) the url is put in CACHE first and the file is left for later
FeedFileWriteLater(t) ==
  /\ epc[t] = "filewrite"
  /\ CACHE' = CACHE \cup {ItemUrl(eheld[t][1])}
  /\ epc' = [epc EXCEPT ![t] = "cacheadd"]
  /\ UNCHANGED << READ_ALL_SKIP_CACHE, web, cacheFile, rerun, XML_QUEUE,
                  EXTRACT_FEED_QUEUE, RSS_STACK, mainpc, started, npc, nheld,
                  eheld, extractCalls, sinkOut, cacheDrops, articles, earticle >>

\* add_to_cache, lines 364-365: fh.write(url + "\n")
FeedFileWrite(t) ==
  /\ epc[t] = "filewrite"
  /\ cacheFile' = Append(cacheFile, ItemUrl(eheld[t][1]))
  /\ epc' = [epc EXCEPT ![t] = "cacheadd"]
  /\ UNCHANGED << READ_ALL_SKIP_CACHE, web, rerun, CACHE, XML_QUEUE,
                  EXTRACT_FEED_QUEUE, RSS_STACK, mainpc, started, npc, nheld,
                  eheld, extractCalls, sinkOut,
                  cacheDrops,
                  articles, earticle >>

\* (mutant) CACHE is set to the url alone
FeedCacheAddAlone(t) ==
  /\ epc[t] = "cacheadd"
  /\ CACHE' = {ItemUrl(eheld[t][1])}
  /\ epc' = [epc EXCEPT ![t] = "extract"]
  /\ UNCHANGED << READ_ALL_SKIP_CACHE, web, cacheFile, rerun, XML_QUEUE,
                  EXTRACT_FEED_QUEUE, RSS_STACK, mainpc, started, npc, nheld,
                  eheld, extractCalls, sinkOut, cacheDrops, articles, earticle >>

\* add_to_cache, line 366: CACHE.add(url)
FeedCacheAdd(t) ==
  /\ epc[t] = "cacheadd"
  /\ CACHE' = CACHE \cup {ItemUrl(eheld[t][1])}
  /\ epc' = [epc EXCEPT ![t] = "extract"]
  /\ UNCHANGED << READ_ALL_SKIP_CACHE, web, cacheFile, rerun, XML_QUEUE,
                  EXTRACT_FEED_QUEUE, RSS_STACK, mainpc, started, npc, nheld,
                  eheld, extractCalls, sinkOut,
                  cacheDrops,
                  articles, earticle >>

\* where the thread goes after extract_article and the record fields of
\* lines 226-268: an exception raised there ends this thread
AfterExtract(ok) == IF ok THEN "stackcheck" ELSE "crashed"

\* what extract_article may do for the item: raise (<<>>) or return one of
\* the articles
ExtractOutcomes == {<<>>} \cup {<<article>> : article \in articles}

\* the item's record fields can be built from the outcome
FieldsBuilt(item, outcome) ==
  /\ outcome # <<>>
  /\ ~PublishedAt(item, web[item.root_url], outcome[1]).raised

\* (mutant) a failed extraction takes the url out of CACHE again
FeedExtractUndo(t) ==
  /\ epc[t] = "extract"
  /\ extractCalls' = extractCalls \cup {ItemId(eheld[t][1])}
  /\ \E outcome \in ExtractOutcomes :
       /\ earticle' = [earticle EXCEPT ![t] = outcome]
       /\ epc' = [epc EXCEPT ![t] = AfterExtract(FieldsBuilt(eheld[t][1], outcome))]
       /\ CACHE' = IF outcome # <<>> THEN CACHE ELSE CACHE \ {ItemUrl(eheld[t][1])}
  /\ UNCHANGED << READ_ALL_SKIP_CACHE, web, cacheFile, rerun, XML_QUEUE,
                  EXTRACT_FEED_QUEUE, RSS_STACK, mainpc, started, npc, nheld,
                  eheld, sinkOut, cacheDrops, articles >>

\* line 224, and the record fields of lines 226-268, which read the article
FeedExtract(t) ==
  /\ epc[t] = "extract"
  /\ extractCalls' = extractCalls \cup {ItemId(eheld[t][1])}
  /\ \E outcome \in ExtractOutcomes :
       /\ earticle' = [earticle EXCEPT ![t] = outcome]
       /\ epc' = [epc EXCEPT ![t] = AfterExtract(FieldsBuilt(eheld[t][1], outcome))]
  /\ UNCHANGED << READ_ALL_SKIP_CACHE, web, cacheFile, rerun, CACHE, XML_QUEUE,
                  EXTRACT_FEED_QUEUE, RSS_STACK, mainpc, started, npc, nheld,
                  eheld, sinkOut, cacheDrops, articles >>

\* line 270: if lang not in RSS_STACK
FeedStackCheck(t) ==
  /\ epc[t] = "stackcheck"
  /\ epc' = [epc EXCEPT ![t] =
               IF eheld[t][1].lang \notin DOMAIN RSS_STACK THEN "stackinit" ELSE "append"]
  /\ UNCHANGED << READ_ALL_SKIP_CACHE, web, cacheFile, rerun, CACHE, XML_QUEUE,
                  EXTRACT_FEED_QUEUE, RSS_STACK, mainpc, started, npc, nheld,
                  eheld, extractCalls, sinkOut,
                  cacheDrops,
                  articles, earticle >>

\* line 271: RSS_STACK[lang] = [], a new list whatever was there
FeedStackInit(t) ==
  /\ epc[t] = "stackinit"
  /\ RSS_STACK' =
       [l \in DOMAIN RSS_STACK \cup {eheld[t][1].lang} |->
          IF l = eheld[t][1].lang THEN [list |-> <<>>] ELSE RSS_STACK[l]]
  /\ epc' = [epc EXCEPT ![t] = "append"]
  /\ UNCHANGED << READ_ALL_SKIP_CACHE, web, cacheFile, rerun, CACHE, XML_QUEUE,
                  EXTRACT_FEED_QUEUE, mainpc, started, npc, nheld, eheld,
                  extractCalls, sinkOut,
                  cacheDrops,
                  articles, earticle >>

\* line 272: RSS_STACK[lang].append(rss_record)
FeedAppend(t) ==
  /\ epc[t] = "append"
  /\ RSS_STACK' =
       [RSS_STACK EXCEPT ![eheld[t][1].lang].list =
                           Append(@, Record(eheld[t][1], earticle[t][1]))]
  /\ epc' = [epc EXCEPT ![t] = "check"]
  /\ earticle' = [earticle EXCEPT ![t] = <<>>]
  /\ UNCHANGED << READ_ALL_SKIP_CACHE, web, cacheFile, rerun, CACHE, XML_QUEUE,
                  EXTRACT_FEED_QUEUE, mainpc, started, npc, nheld, eheld,
                  extractCalls, sinkOut, cacheDrops, articles >>

(***************************************************************************)
(* Specification.                                                          *)
(***************************************************************************)
Next ==
  \/ Boot
  \/ StartNews
  \/ JoinNews
  \/ StartFeed
  \/ JoinFeed
  \/ Sink
  \/ \E t \in Threads : NewsCheck(t)
  \/ \E t \in Threads : NewsGet(t)
  \/ \E t \in Threads : NewsPut(t)
  \/ \E t \in Threads : FeedCheck(t)
  \/ \E t \in Threads : FeedGet(t)
  \/ \E t \in Threads : FeedCacheLookup(t)
  \/ \E t \in Threads : FeedFileWrite(t)
  \/ \E t \in Threads : FeedCacheAdd(t)
  \/ \E t \in Threads : FeedExtract(t)
  \/ \E t \in Threads : FeedStackCheck(t)
  \/ \E t \in Threads : FeedStackInit(t)
  \/ \E t \in Threads : FeedAppend(t)

Spec == Init /\ [][Next]_vars

\* The threads and the driver are operating-system threads: whichever can take
\* a step eventually takes one.
FairSpec == Spec /\ WF_vars(Next)

\* The script is run again once it has finished: a new process over the same
\* feeds and the cache.txt the first one left, started without -c.
Rerun ==
  /\ mainpc = "done"
  /\ ~rerun
  /\ rerun' = TRUE
  /\ mainpc' = "boot"
  /\ started' = 0
  /\ CACHE' = {}
  /\ XML_QUEUE' = <<>>
  /\ EXTRACT_FEED_QUEUE' = <<>>
  /\ RSS_STACK' = <<>>
  /\ npc' = [t \in Threads |-> "new"]
  /\ nheld' = [t \in Threads |-> <<>>]
  /\ epc' = [t \in Threads |-> "new"]
  /\ eheld' = [t \in Threads |-> <<>>]
  /\ extractCalls' = {}
  /\ cacheDrops' = {}
  /\ sinkOut' = <<>>
  /\ earticle' = [t \in Threads |-> <<>>]
  /\ UNCHANGED << READ_ALL_SKIP_CACHE, web, cacheFile, articles >>

NextRerun == Next \/ Rerun

SpecRerun == Init /\ [][NextRerun]_vars

\* Runs over feeds and articles that differ in the dates they carry, in
\* persistence mode from an empty cache.txt.
InitDates ==
  /\ READ_ALL_SKIP_CACHE = FALSE
  /\ web \in DatedWebs
  /\ cacheFile = <<>>
  /\ rerun = FALSE
  /\ CACHE = {}
  /\ XML_QUEUE = <<>>
  /\ EXTRACT_FEED_QUEUE = <<>>
  /\ RSS_STACK = <<>>
  /\ mainpc = "boot"
  /\ started = 0
  /\ npc = [t \in Threads |-> "new"]
  /\ nheld = [t \in Threads |-> <<>>]
  /\ epc = [t \in Threads |-> "new"]
  /\ eheld = [t \in Threads |-> <<>>]
  /\ articles = ArticlePool
  /\ earticle = [t \in Threads |-> <<>>]
  /\ extractCalls = {}
  /\ cacheDrops = {}
  /\ sinkOut = <<>>

SpecDates == InitDates /\ [][Next]_vars

(***************************************************************************)
(* Vocabulary of the properties.                                           *)
(***************************************************************************)
\* every entry item the feeds of this run hold
WebItems ==
  UNION { UNION { { EntryItem(l, NEWS_URLs[l][i][1], NEWS_URLs[l][i][2], k) :
                      k \in DOMAIN EntryNodes(web[NEWS_URLs[l][i][1]]) } :
                  i \in DOMAIN NEWS_URLs[l] } :
          l \in Langs }

\* the item carries the three tags its schema names
HasTags(item) ==
  /\ ~Missing(item.node, item.schema.title)
  /\ ~Missing(item.node, item.schema.description)
  /\ ~Missing(item.node, item.schema.url)

\* the item has its title and description and neither holds a keyword
Irrelevant(item) ==
  /\ ~Missing(item.node, item.schema.title)
  /\ ~Missing(item.node, item.schema.description)
  /\ Words(item.node[item.schema.title]) \cap CORONA_KEYWORDS = {}
  /\ Words(item.node[item.schema.description]) \cap CORONA_KEYWORDS = {}

\* the item has all its tags and a keyword in its title or its description
Relevant(item) == HasTags(item) /\ ~Irrelevant(item)

RecordsOf(url) == {i \in DOMAIN AllRecords : AllRecords[i].url = url}

RecordsOfItem(item) == {i \in DOMAIN AllRecords : AllRecords[i].item = ItemId(item)}

FileRows == {cacheFile[i] : i \in DOMAIN cacheFile}

AnyCrashed == \E t \in Threads : npc[t] = "crashed" \/ epc[t] = "crashed"

FeedPoolJoined == mainpc \in {"sink", "done"}

\* thread t called extract_article for the item it holds and the call raised
ExtractionFailed(t) ==
  /\ epc[t] = "crashed"
  /\ eheld[t] # <<>>
  /\ ItemId(eheld[t][1]) \in extractCalls
  /\ earticle[t] = <<>>

\* thread t is past the cache lookup with the item it holds
Accepted(t) ==
  epc[t] \in {"filewrite", "cacheadd", "extract", "stackcheck", "stackinit", "append"}

(***************************************************************************)
(* C1.  Persistence mode, two relevant entries with the same url, the url  *)
(* not cached at the start and no thread failing: once the filter/enrich   *)
(* pool is joined RSS_STACK holds exactly one record of that url.          *)
(***************************************************************************)
C1_OneRecordPerDuplicate ==
  (FeedPoolJoined /\ ~READ_ALL_SKIP_CACHE /\ ~AnyCrashed) =>
    \A a \in WebItems : \A b \in WebItems :
      ( /\ a # b
        /\ Relevant(a) /\ Relevant(b)
        /\ ItemUrl(a) = ItemUrl(b)
        /\ ItemId(a) \in extractCalls )
      => Cardinality(RecordsOf(ItemUrl(a))) = 1

(***************************************************************************)
(* C2.  The urls of the records of RSS_STACK are pairwise distinct (stated *)
(* for the runs that use the Dedup Cache: with -a nothing is ever marked   *)
(* seen).                                                                  *)
(***************************************************************************)
C2_RecordUrlsDistinct ==
  ~READ_ALL_SKIP_CACHE =>
    \A i \in DOMAIN AllRecords : \A j \in DOMAIN AllRecords :
      i # j => AllRecords[i].url # AllRecords[j].url

(***************************************************************************)
(* C3.  Under fair scheduling, unless some thread fails, the driver gets   *)
(* past both joins and finishes the sink step.                             *)
(***************************************************************************)
C3_RunCompletes == <>(mainpc = "done" \/ AnyCrashed)

(***************************************************************************)
(* C4.  Barrier: an extract_feed_data thread exists, and the entry queue   *)
(* is read, only when every news thread has ended.                         *)
(***************************************************************************)
C4_Barrier ==
  (\E t \in Threads : epc[t] # "new") => \A t \in Threads : Dead(npc[t])

C4_Witness ==
  /\ \E t \in Threads : epc[t] = "incache"
  /\ \E t \in Threads : npc[t] = "crashed"
  /\ \E t \in Threads : npc[t] = "done"

(***************************************************************************)
(* C5.  Once the fetch pool is joined every feed source has been taken     *)
(* from XML_QUEUE, and every entry of every feed that downloads is in      *)
(* EXTRACT_FEED_QUEUE, however many downloads failed.                      *)
(***************************************************************************)
C5_FetchFailureIsolated ==
  (mainpc = "start_feed" /\ started = 0) =>
    /\ XML_QUEUE = <<>>
    /\ {EXTRACT_FEED_QUEUE[i] : i \in DOMAIN EXTRACT_FEED_QUEUE} = WebItems

(***************************************************************************)
(* C6.  Once the filter/enrich pool is joined no entry item is left in     *)
(* EXTRACT_FEED_QUEUE, however many items failed.                          *)
(***************************************************************************)
C6_ItemFailureIsolated == FeedPoolJoined => EXTRACT_FEED_QUEUE = <<>>

C8_CachedUrlNotExtracted ==
  /\ cacheDrops \cap extractCalls = {}
  /\ \A i \in DOMAIN AllRecords : AllRecords[i].item \notin cacheDrops
  /\ \A t \in Threads :
       (Accepted(t) \/ epc[t] = "crashed") => ItemId(eheld[t][1]) \notin cacheDrops

C8_Witness ==
  /\ mainpc = "done"
  /\ \E it \in WebItems : ItemId(it) \in cacheDrops /\ RecordsOf(ItemUrl(it)) # {}

(***************************************************************************)
(* C9.  An item with no keyword in its title or description is dropped at  *)
(* once: no thread takes it past the filter, extract_article is not called *)
(* for it, no record is made of it, and every url of CACHE is a row the    *)
(* cache was loaded with or the url of a relevant item.                    *)
(***************************************************************************)
C9_IrrelevantItemDropped ==
  /\ \A it \in WebItems :
       Irrelevant(it) =>
         /\ ItemId(it) \notin extractCalls
         /\ ItemId(it) \notin cacheDrops
         /\ RecordsOfItem(it) = {}
         /\ \A t \in Threads :
              (eheld[t] # <<>> /\ eheld[t][1] = it) => epc[t] \in {"check", "get", "done"}
  /\ \A url \in CACHE \cup FileRows :
       \/ url \in UNION {SplitRows(f) : f \in PriorCacheFiles}
       \/ \E it \in WebItems : Relevant(it) /\ ItemUrl(it) = url

\* the run is over, a feed held only irrelevant entries, the other feeds gave
\* records, and the url of the irrelevant entries was never cached
C9_Witness ==
  /\ mainpc = "done"
  /\ ~READ_ALL_SKIP_CACHE
  /\ EXTRACT_FEED_QUEUE = <<>>
  /\ AllRecords # <<>>
  /\ \E it \in WebItems :
       /\ Irrelevant(it)
       /\ ItemUrl(it) \notin CACHE
       /\ \A other \in WebItems : other.root_url = it.root_url => Irrelevant(other)

(***************************************************************************)
(* C10.  Persistence mode: the second run over the same feeds, with the    *)
(* cache.txt the first run left, calls extract_article for nothing and     *)
(* makes no record.                                                        *)
(***************************************************************************)
C10_SecondRunEmitsNothing ==
  (rerun /\ ~READ_ALL_SKIP_CACHE) => (extractCalls = {} /\ AllRecords = <<>>)

(***************************************************************************)
(* C11.  With READ_ALL_SKIP_CACHE set, read_cache and add_to_cache are     *)
(* never performed: CACHE is empty after every step, no step of the        *)
(* pipeline (every step after the bootstrap of cache.txt, which empties    *)
(* the file when -c is given) changes cache.txt, and a thread that looks   *)
(* a url up goes on to extract_article and drops nothing as seen.          *)
(***************************************************************************)
C11_BypassStep ==
  READ_ALL_SKIP_CACHE =>
    /\ CACHE' = {}
    /\ mainpc # "boot" => cacheFile' = cacheFile
    /\ cacheDrops' = {}
    /\ \A t \in Threads :
         (epc[t] = "incache" /\ epc'[t] # "incache") => epc'[t] = "extract"

\* C11: every step of a run in bypass mode leaves the cache alone
C11_BypassLeavesCacheAlone == [][C11_BypassStep]_vars

\* bypass mode, the run is over: two relevant entries of one url both gave a
\* record although cache.txt held that url before and after
C11_Witness ==
  /\ READ_ALL_SKIP_CACHE
  /\ mainpc = "done"
  /\ cacheFile # <<>>
  /\ \E url \in FileRows :
       /\ Cardinality(RecordsOf(url)) > 1
       /\ \A it \in WebItems : (Relevant(it) /\ ItemUrl(it) = url) => RecordsOfItem(it) # {}

(***************************************************************************)
(* C12.  No append to RSS_STACK is lost: once the extract_feed_data        *)
(* threads are joined, every item a thread built a record of and appended  *)
(* (extract_article was called for it and no thread ended on it) has       *)
(* exactly one record in RSS_STACK, also when the first records of a       *)
(* language are appended by several threads at once.                       *)
(***************************************************************************)
C12_NoAppendLost ==
  FeedPoolJoined =>
    \A it \in WebItems :
      ( /\ ItemId(it) \in extractCalls
        /\ \A t \in Threads : ~(epc[t] = "crashed" /\ eheld[t] = <<it>>) )
      => Cardinality(RecordsOfItem(it)) = 1

(***************************************************************************)
(* C13.  publishedAt is the first populated candidate in the order: the    *)
(* schema's publish-date field of the entry, the entry's pubDate, the      *)
(* article's publish date, the article metadata's modified_time, the       *)
(* page's lastBuildDate, else the empty string; an entry that lacks the    *)
(* field its schema declares falls through to the next candidate.  Stated  *)
(* for a thread that has its article and whose populated candidates all    *)
(* parse: the thread has not ended on the item, and the record it builds   *)
(* carries that candidate, normalised.                                     *)
(***************************************************************************)
\* the five candidates in the order of priority, text <<>> for a candidate
\* the entry, the article or the page does not carry
DateCandidates(item, soup_page, article) ==
  << [text |-> IF "publish_date" \in DOMAIN item.schema
                   /\ ~Missing(item.node, item.schema.publish_date)
                 THEN item.node[item.schema.publish_date] ELSE <<>>,
      formatted |-> FALSE],
     [text |-> IF ~Missing(item.node, "pubDate") THEN item.node.pubDate ELSE <<>>,
      formatted |-> FALSE],
     [text |-> article.publish_date, formatted |-> TRUE],
     [text |-> article.modified_time, formatted |-> FALSE],
     [text |-> soup_page.lastBuildDate, formatted |-> FALSE] >>

Parseable(date_string) == MatchesRfc2822(date_string) \/ MatchesIso8601(date_string)

AllParse(cands) ==
  \A i \in DOMAIN cands :
    (cands[i].text # <<>> /\ ~cands[i].formatted) => Parseable(cands[i].text)

\* the first populated candidate, normalised; <<>> with none populated
FirstCandidate(cands) ==
  IF \A i \in DOMAIN cands : cands[i].text = <<>> THEN <<>>
  ELSE LET i == CHOOSE j \in DOMAIN cands :
                  /\ cands[j].text # <<>>
                  /\ \A k \in DOMAIN cands : k < j => cands[k].text = <<>>
       IN  IF cands[i].formatted THEN cands[i].text
           ELSE date_convert(cands[i].text).value

\* C13: the record carries the first populated candidate, with fall-through
C13_FirstCandidateWins ==
  \A t \in Threads :
    (earticle[t] # <<>> /\ eheld[t] # <<>>) =>
      LET item == eheld[t][1]
          cands == DateCandidates(item, web[item.root_url], earticle[t][1])
      IN  AllParse(cands) =>
            /\ epc[t] # "crashed"
            /\ Record(item, earticle[t][1]).publishedAt = FirstCandidate(cands)

\* the same with the entries left out that lack the field their schema
\* declares
C13_ExceptUndeclared ==
  \A t \in Threads :
    (earticle[t] # <<>> /\ eheld[t] # <<>>) =>
      LET item == eheld[t][1]
          cands == DateCandidates(item, web[item.root_url], earticle[t][1])
      IN  (AllParse(cands) /\ DateSource(item, web[item.root_url], earticle[t][1]).how # "none_text") =>
            /\ epc[t] # "crashed"
            /\ Record(item, earticle[t][1]).publishedAt = FirstCandidate(cands)

(***************************************************************************)
(* C14.  date_convert of a string that matches neither pattern returns the *)
(* string as it is and does not fail: a thread whose publishedAt comes     *)
(* from such a string has not ended on the item, and the record it builds  *)
(* carries the string.                                                     *)
(***************************************************************************)
C14_MissPassesThrough ==
  \A t \in Threads :
    (earticle[t] # <<>> /\ eheld[t] # <<>>) =>
      LET item == eheld[t][1]
          src == DateSource(item, web[item.root_url], earticle[t][1])
      IN  (src.how = "convert" /\ ~Parseable(src.raw)) =>
            /\ epc[t] # "crashed"
            /\ Record(item, earticle[t][1]).publishedAt = src.raw

(***************************************************************************)
(* C15.  Persistence mode: when read_cache has run, CACHE is exactly the   *)
(* set of urls cache.txt lists; the empty string is never in CACHE, also   *)
(* with cache.txt empty; and an item dropped as seen has its url in        *)
(* cache.txt.                                                              *)
(***************************************************************************)
C15_CacheIsFileUrls ==
  ~READ_ALL_SKIP_CACHE =>
    /\ mainpc = "start_news" => CACHE = FileRows
    /\ <<>> \notin CACHE
    /\ \A it \in WebItems : ItemId(it) \in cacheDrops => ItemUrl(it) \in FileRows

(***************************************************************************)
(* C16.  For each document fetched, news() puts one item per entry node,   *)
(* in order: the 'item' nodes when the document has any, else the 'url'    *)
(* nodes; 'url' nodes are not used beside 'item' nodes, and a document     *)
(* with neither gives no item.  Stated while no extract_feed_data thread   *)
(* has taken anything: the nodes queued for a feed are the first of its    *)
(* entry nodes, and all of them once the news threads are joined.          *)
(***************************************************************************)
\* the nodes of the items in EXTRACT_FEED_QUEUE that came from root_url
QueuedNodes(root_url) ==
  LET From(it) == it.root_url = root_url
      q == SelectSeq(EXTRACT_FEED_QUEUE, From)
  IN  [k \in DOMAIN q |-> q[k].node]

\* root_url was taken from XML_QUEUE and its download succeeded
Fetched(root_url) ==
  /\ web[root_url].ok
  /\ mainpc # "boot"
  /\ \A j \in DOMAIN XML_QUEUE : XML_QUEUE[j][2][1] # root_url

\* C16: the queue holds one item per entry node of each fetched document
C16_OneItemPerEntryNode ==
  (\A t \in Threads : epc[t] = "new") =>
    \A root_url \in RootUrls :
      LET doc == web[root_url]
          nodes == IF doc.items # <<>> THEN doc.items ELSE doc.urls
          queued == QueuedNodes(root_url)
      IN  /\ Len(queued) <= Len(nodes)
          /\ queued = SubSeq(nodes, 1, Len(queued))
          /\ ~Fetched(root_url) => queued = <<>>
          /\ (Fetched(root_url) /\ mainpc = "start_feed") => queued = nodes
          /\ doc.items # <<>> =>
                \A k \in DOMAIN queued : \E i \in DOMAIN doc.items : queued[k] = doc.items[i]

\* the news threads are joined and a document with both 'item' and 'url'
\* nodes was fetched: its 'item' nodes are queued, its 'url' nodes are not
C16_Witness ==
  /\ mainpc = "start_feed"
  /\ \A t \in Threads : epc[t] = "new"
  /\ \E root_url \in RootUrls :
       /\ Fetched(root_url)
       /\ web[root_url].items # <<>>
       /\ web[root_url].urls # <<>>
       /\ QueuedNodes(root_url) = web[root_url].items
  /\ \E root_url \in RootUrls :
       /\ Fetched(root_url)
       /\ web[root_url].urls = <<>>
       /\ QueuedNodes(root_url) = web[root_url].items
       /\ QueuedNodes(root_url) # <<>>

(***************************************************************************)
(* C17.  Every item put in EXTRACT_FEED_QUEUE is taken exactly once: the   *)
(* queue never lists an item twice, an item a thread has taken is no       *)
(* longer in the queue and is taken by no other thread, and when the       *)
(* extract_feed_data threads are joined and none of them ended on an       *)
(* item, the queue is empty.                                               *)
(***************************************************************************)
C17_TakenOnce ==
  /\ \A i, j \in DOMAIN EXTRACT_FEED_QUEUE :
       ItemId(EXTRACT_FEED_QUEUE[i]) = ItemId(EXTRACT_FEED_QUEUE[j]) => i = j
  /\ \A t \in Threads :
       eheld[t] # <<>> =>
         /\ \A i \in DOMAIN EXTRACT_FEED_QUEUE :
              ItemId(EXTRACT_FEED_QUEUE[i]) # ItemId(eheld[t][1])
         /\ \A u \in Threads \ {t} : eheld[u] # eheld[t]
  /\ (FeedPoolJoined /\ \A t \in Threads : epc[t] # "crashed") =>
       EXTRACT_FEED_QUEUE = <<>>

\* the threads are joined, none ended on an item, two of them took items,
\* and the items gave records
C17_Witness ==
  /\ FeedPoolJoined
  /\ \A t \in Threads : epc[t] = "done"
  /\ \E t, u \in Threads : t # u /\ eheld[t] # <<>> /\ eheld[u] # <<>>
  /\ Len(AllRecords) > 1
  /\ EXTRACT_FEED_QUEUE = <<>>

(***************************************************************************)
(* C18.  The cache only grows while the threads run: over every step after *)
(* the bootstrap CACHE keeps every url it held and cache.txt keeps every   *)
(* row it held, in order; and in persistence mode a thread that the step   *)
(* brings to extract_article has the url of its item in CACHE and in       *)
(* cache.txt.                                                              *)
(***************************************************************************)
C18_CacheStep ==
  /\ mainpc # "boot" =>
       /\ CACHE \subseteq CACHE'
       /\ Len(cacheFile) <= Len(cacheFile')
       /\ SubSeq(cacheFile', 1, Len(cacheFile)) = cacheFile
  /\ ~READ_ALL_SKIP_CACHE =>
       \A t \in Threads :
         epc'[t] = "extract" =>
           /\ ItemUrl(eheld'[t][1]) \in CACHE'
           /\ \E i \in DOMAIN cacheFile' : cacheFile'[i] = ItemUrl(eheld'[t][1])

\* C18: every step after the bootstrap only adds to CACHE and cache.txt
C18_AppendOnly == [][C18_CacheStep]_vars

\* persistence mode, cache.txt had a row before the run and has more now,
\* and a thread is about to call extract_article for a url that is in
\* CACHE and in cache.txt but was not in cache.txt before the run
C18_Witness ==
  /\ ~READ_ALL_SKIP_CACHE
  /\ Len(cacheFile) > 1
  /\ \E t \in Threads :
       /\ epc[t] = "extract"
       /\ ItemUrl(eheld[t][1]) \in CACHE
       /\ ItemUrl(eheld[t][1]) \in FileRows
       /\ ItemUrl(eheld[t][1]) # cacheFile[1]
       /\ cacheFile[1] \in CACHE

(***************************************************************************)
(* C19.  The sinks read RSS_STACK only when every extract_feed_data thread *)
(* has exited: from the moment the driver is at the sinks every thread has *)
(* returned or ended on an exception, and what the sinks read is all that  *)
(* RSS_STACK ever holds, no record being appended after.                   *)
(***************************************************************************)
C19_SinkAfterThreads ==
  /\ mainpc \in {"sink", "done"} => \A t \in Threads : Dead(epc[t])
  /\ mainpc = "done" => sinkOut = AllRecords

\* the sinks have read two records or more, and a thread had ended on an
\* exception before
C19_Witness ==
  /\ mainpc = "done"
  /\ Len(sinkOut) > 1
  /\ sinkOut = AllRecords
  /\ \E t \in Threads : epc[t] = "crashed"

(***************************************************************************)
(* C20.  Persistence mode, at every state: the url of every record in      *)
(* RSS_STACK is in CACHE, and every url of CACHE is a row of cache.txt,    *)
(* but for the empty row that read_cache loads: a url is appended to the   *)
(* file before it is put in CACHE.                                         *)
(***************************************************************************)
C20_RecordsCachedCachePersisted ==
  ~READ_ALL_SKIP_CACHE =>
    /\ \A i \in DOMAIN AllRecords : AllRecords[i].url \in CACHE
    /\ \A url \in CACHE : url \in FileRows \/ url = <<>>

\* persistence mode: a record is in RSS_STACK with its url in CACHE and in
\* cache.txt, and a thread has appended another url to cache.txt that is not
\* in CACHE yet
C20_Witness ==
  /\ ~READ_ALL_SKIP_CACHE
  /\ \E i \in DOMAIN AllRecords :
       AllRecords[i].url \in CACHE /\ AllRecords[i].url \in FileRows
  /\ \E t \in Threads :
       /\ epc[t] = "cacheadd"
       /\ ItemUrl(eheld[t][1]) \in FileRows
       /\ ItemUrl(eheld[t][1]) \notin CACHE

====
